---- MODULE Spec2Model ----
(***************************************************************************)
(* The data-cleaning pipeline of datacleaning.ipynb: check_data_quality,   *)
(* standardize_datatypes, handle_missing_values, remove_outliers,          *)
(* validate_cleaning and automated_cleaning_pipeline, over one in-memory   *)
(* table (a pandas DataFrame) and one report dictionary.                   *)
(*                                                                         *)
(* A table is a sequence of columns [name, dtype, cells]; a cell is a      *)
(* record [k, v]: k = "nan" (missing: NaN / NaT), "str" (v: the sequence   *)
(* of the string's characters), "num" (v: the number, in units of 1/Scale) *)
(* or "date" (v: <<year, month, day>>).                                    *)
(***************************************************************************)
EXTENDS Integers, Sequences, FiniteSets, TLC

VARIABLES df, pc, original_shape, cleaning_report, error, input, before

vars == <<df, pc, original_shape, cleaning_report, error, input, before>>

(***************************************************************************)
(* Bounds of the model.                                                    *)
(***************************************************************************)
\* rows of a one-column table whose cells may be missing
MaxRows == 3
\* rows of a one-column table of integers, none missing
MaxNumRows == 5
\* rows of a two-column table
MaxPairRows == 2
\* rows of a table handed to handle_missing_values alone
MaxImputeRows == 4

(***************************************************************************)
(* Numbers.  Every number of a run is a dyadic rational: the inputs are    *)
(* integers, a median halves, a quantile at 0.25 / 0.75 interpolates in    *)
(* quarters and 1.5 * IQR halves again.  A number x is held as the integer *)
(* x * Scale, so float64 arithmetic on these values is exact and is the    *)
(* integer arithmetic below.                                               *)
(***************************************************************************)
Scale == 2 ^ 4

NaN == [k |-> "nan", v |-> 0]

Num(n) == [k |-> "num", v |-> n * Scale]

Str(s) == [k |-> "str", v |-> s]

Date(y, m, d) == [k |-> "date", v |-> <<y, m, d>>]

\* pandas isnull(): NaN and NaT
isnull(c) == c.k = "nan"

Range(s) == {s[i] : i \in 1..Len(s)}

\* the non-missing cells of a column, in column order
Present(cells) == SelectSeq(cells, LAMBDA c : ~isnull(c))

CountIn(cells, x) == Cardinality({i \in 1..Len(cells) : cells[i] = x})

(***************************************************************************)
(* Strings: Python compares str by code point, character by character.     *)
(***************************************************************************)
Digits == {"0", "1", "2", "3", "4", "5", "6", "7", "8", "9"}

Ord(c) ==
    CASE c = "$" -> 36
      [] c = "," -> 44
      [] c = "-" -> 45
      [] c = "0" -> 48
      [] c = "1" -> 49
      [] c = "2" -> 50
      [] c = "3" -> 51
      [] c = "4" -> 52
      [] c = "5" -> 53
      [] c = "6" -> 54
      [] c = "7" -> 55
      [] c = "8" -> 56
      [] c = "9" -> 57
      [] c = "a" -> 97
      [] c = "b" -> 98
      [] c = "c" -> 99

DigitVal(c) == Ord(c) - 48

\* s < t for two strings
RECURSIVE StrLess(_, _)
StrLess(s, t) ==
    IF t = <<>> THEN FALSE
    ELSE IF s = <<>> THEN TRUE
    ELSE IF Ord(Head(s)) # Ord(Head(t)) THEN Ord(Head(s)) < Ord(Head(t))
    ELSE StrLess(Tail(s), Tail(t))

\* int() of a string of digits
RECURSIVE DigitsValue(_)
DigitsValue(s) ==
    IF s = <<>> THEN 0
    ELSE DigitsValue(SubSeq(s, 1, Len(s) - 1)) * 10 + DigitVal(s[Len(s)])

AllDigits(s) == s # <<>> /\ \A i \in 1..Len(s) : s[i] \in Digits

\* Series.str.replace(ch, ''): every occurrence of the character removed
str_replace(s, ch) == SelectSeq(s, LAMBDA c : c # ch)

(***************************************************************************)
(* Tables.                                                                 *)
(***************************************************************************)
\* len(df)
len(t) == IF t = <<>> THEN 0 ELSE Len(t[1].cells)

\* df.shape
shape(t) == <<len(t), Len(t)>>

\* df.columns
columns(t) == {t[j].name : j \in 1..Len(t)}

Row(t, i) == [j \in 1..Len(t) |-> t[j].cells[i]]

\* df.isnull().sum(): per column, the number of missing cells
isnull_sum(t) ==
    [n \in columns(t) |->
        LET col == CHOOSE c \in Range(t) : c.name = n
        IN  Cardinality({i \in 1..Len(col.cells) : isnull(col.cells[i])})]

\* df.isnull().sum().sum()
isnull_sum_sum(t) ==
    Cardinality({<<j, i>> \in (1..Len(t)) \X (1..len(t)) : isnull(t[j].cells[i])})

\* df.duplicated().sum(): rows equal, in every column, to an earlier row
duplicated_sum(t) ==
    Cardinality({i \in 1..len(t) : \E h \in 1..(i - 1) : Row(t, h) = Row(t, i)})

\* df.memory_usage().sum(), the bytes of the columns' data: 8 per cell for
\* object, int64, float64 and datetime64 alike (the index's own bytes, the
\* same before and after cleaning, and the division into MB are left out)
memory_usage_sum(t) == 8 * len(t) * Len(t)

(***************************************************************************)
(* Step 1: check_data_quality                                              *)
(***************************************************************************)
check_data_quality(t) ==
    [missing_values |-> isnull_sum(t),
     duplicates     |-> duplicated_sum(t),
     total_rows     |-> len(t),
     memory_usage   |-> memory_usage_sum(t)]

(***************************************************************************)
(* Step 2: standardize_datatypes                                           *)
(***************************************************************************)
\* pd.to_datetime on one string: the ISO form YYYY-MM-DD, within the years a
\* datetime64[ns] holds
IsDateString(s) ==
    /\ Len(s) = 10
    /\ s[5] = "-" /\ s[8] = "-"
    /\ \A i \in {1, 2, 3, 4, 6, 7, 9, 10} : s[i] \in Digits
    /\ DigitsValue(SubSeq(s, 1, 4)) \in 1678..2261
    /\ DigitsValue(SubSeq(s, 6, 7)) \in 1..12
    /\ DigitsValue(SubSeq(s, 9, 10)) \in 1..31

ParseDate(s) ==
    Date(DigitsValue(SubSeq(s, 1, 4)), DigitsValue(SubSeq(s, 6, 7)),
         DigitsValue(SubSeq(s, 9, 10)))

\* pd.to_datetime(column) raises ValueError unless every present cell parses
to_datetime_ok(cells) ==
    \A i \in 1..Len(cells) :
        isnull(cells[i]) \/ (cells[i].k = "str" /\ IsDateString(cells[i].v))

to_datetime(cells) ==
    [i \in 1..Len(cells) |->
        IF isnull(cells[i]) THEN NaN ELSE ParseDate(cells[i].v)]

\* pd.to_numeric on one string: digits with an optional sign; the empty
\* string converts to NaN
IsNumberString(s) ==
    \/ s = <<>>
    \/ AllDigits(s)
    \/ (Len(s) > 1 /\ s[1] = "-" /\ AllDigits(Tail(s)))

ParseNumber(s) ==
    IF s = <<>> THEN NaN
    ELSE IF s[1] = "-" THEN Num(0 - DigitsValue(Tail(s)))
    ELSE Num(DigitsValue(s))

\* column.str.replace('$', '').str.replace(',', '')
strip_currency(c) ==
    IF isnull(c) THEN c ELSE Str(str_replace(str_replace(c.v, "$"), ","))

to_numeric_ok(cells) ==
    \A i \in 1..Len(cells) :
        isnull(cells[i]) \/ (cells[i].k = "str" /\ IsNumberString(cells[i].v))

to_numeric(cells) ==
    [i \in 1..Len(cells) |->
        IF isnull(cells[i]) THEN NaN ELSE ParseNumber(cells[i].v)]

\* the dtype pandas gives a numeric column: int64 without a NaN, else float64
numeric_dtype(cells) ==
    IF \E i \in 1..Len(cells) : isnull(cells[i]) THEN "float64" ELSE "int64"

\* a plausible slip: errors='coerce', a malformed cell becoming NaN
standardize_column_coerce(col) ==
    IF col.dtype # "object" THEN col
    ELSE IF to_datetime_ok(col.cells)
    THEN [col EXCEPT !.dtype = "datetime64", !.cells = to_datetime(col.cells)]
    ELSE LET stripped == [i \in 1..Len(col.cells) |-> strip_currency(col.cells[i])]
             coerced  == [i \in 1..Len(col.cells) |->
                             IF isnull(stripped[i]) \/ ~IsNumberString(stripped[i].v)
                             THEN NaN ELSE ParseNumber(stripped[i].v)]
         IN  [col EXCEPT !.dtype = numeric_dtype(coerced), !.cells = coerced]

\* the body of the loop over df.columns, for one column
standardize_column(col) ==
    IF col.dtype # "object" THEN col
    ELSE IF to_datetime_ok(col.cells)
    THEN [col EXCEPT !.dtype = "datetime64", !.cells = to_datetime(col.cells)]
    ELSE LET stripped == [i \in 1..Len(col.cells) |-> strip_currency(col.cells[i])]
         IN  IF to_numeric_ok(stripped)
             THEN [col EXCEPT !.dtype = numeric_dtype(to_numeric(stripped)),
                              !.cells = to_numeric(stripped)]
             ELSE col

standardize_datatypes(t) == [j \in 1..Len(t) |-> standardize_column(t[j])]

(***************************************************************************)
(* Step 3: handle_missing_values (sklearn's SimpleImputer)                 *)
(***************************************************************************)
\* ascending sort of a sequence of integers
RECURSIVE Insert(_, _)
Insert(x, s) ==
    IF s = <<>> THEN <<x>>
    ELSE IF x <= Head(s) THEN <<x>> \o s
    ELSE <<Head(s)>> \o Insert(x, Tail(s))

RECURSIVE Sorted(_)
Sorted(s) == IF s = <<>> THEN <<>> ELSE Insert(Head(s), Sorted(Tail(s)))

\* the present numbers of a column, ascending
SortedValues(cells) ==
    LET p == Present(cells) IN Sorted([i \in 1..Len(p) |-> p[i].v])

\* strategy='median': np.nanmedian over the present values (at least one)
median(cells) ==
    LET s == SortedValues(cells)
        n == Len(s)
    IN  [k |-> "num",
         v |-> IF n % 2 = 1 THEN s[(n + 1) \div 2]
               ELSE (s[n \div 2] + s[n \div 2 + 1]) \div 2]

\* a plausible slip: the first value met among the most frequent ones
most_frequent_first(cells) ==
    LET p   == Present(cells)
        top == {x \in Range(p) : \A y \in Range(p) : CountIn(p, y) <= CountIn(p, x)}
    IN  p[CHOOSE i \in 1..Len(p) : p[i] \in top /\ \A h \in 1..(i - 1) : p[h] \notin top]

\* strategy='most_frequent' on an object column: Counter, then the smallest
\* of the values with the highest count
most_frequent(cells) ==
    LET p     == Present(cells)
        top   == {x \in Range(p) : \A y \in Range(p) : CountIn(p, y) <= CountIn(p, x)}
    IN  CHOOSE x \in top : \A y \in top \ {x} : StrLess(x.v, y.v)

\* a plausible slip: only the first missing cell is filled (fillna(limit=1))
fill_first(cells, value) ==
    [i \in 1..Len(cells) |->
        IF isnull(cells[i]) /\ \A h \in 1..(i - 1) : ~isnull(cells[h])
        THEN value ELSE cells[i]]

\* transform(): every missing cell gets the column's statistic
fill(cells, value) ==
    [i \in 1..Len(cells) |-> IF isnull(cells[i]) THEN value ELSE cells[i]]

numeric_dtypes == {"int64", "float64"}

\* df.select_dtypes(include=dtypes).columns, as column positions
select_dtypes(t, dtypes) == {j \in 1..Len(t) : t[j].dtype \in dtypes}

\* fit_transform raises ValueError on a block without rows; a column without a
\* present value is dropped from its result, and assigning the narrower array
\* to df[columns] raises ValueError
imputer_raises(t, cols) ==
    /\ cols # {}
    /\ \/ len(t) = 0
       \/ \E j \in cols : Present(t[j].cells) = <<>>

\* df[numeric_columns] = num_imputer.fit_transform(df[numeric_columns])
impute_numeric(t) ==
    [j \in 1..Len(t) |->
        IF t[j].dtype \in numeric_dtypes
        THEN [t[j] EXCEPT !.dtype = "float64",
                          !.cells = fill(t[j].cells, median(t[j].cells))]
        ELSE t[j]]

\* df[categorical_columns] = cat_imputer.fit_transform(df[categorical_columns])
impute_categorical(t) ==
    [j \in 1..Len(t) |->
        IF t[j].dtype = "object"
        THEN [t[j] EXCEPT !.cells = fill(t[j].cells, most_frequent(t[j].cells))]
        ELSE t[j]]

\* the table the call leaves and the exception it raises, if any
handle_missing_values(t) ==
    IF imputer_raises(t, select_dtypes(t, numeric_dtypes))
    THEN [df |-> t, error |-> "ValueError"]
    ELSE LET t1 == IF select_dtypes(t, numeric_dtypes) # {}
                   THEN impute_numeric(t) ELSE t
         IN  IF imputer_raises(t1, select_dtypes(t1, {"object"}))
             THEN [df |-> t1, error |-> "ValueError"]
             ELSE [df |-> IF select_dtypes(t1, {"object"}) # {}
                          THEN impute_categorical(t1) ELSE t1,
                   error |-> "none"]

(***************************************************************************)
(* Step 4: remove_outliers                                                 *)
(***************************************************************************)
\* Series.quantile(quarters / 4), linear interpolation over the present
\* values; NaN for a column without one
quantile(cells, quarters) ==
    LET s   == SortedValues(cells)
        pos == (Len(s) - 1) * quarters
        i   == pos \div 4
        r   == pos % 4
    IN  IF s = <<>> THEN NaN
        ELSE [k |-> "num",
              v |-> IF r = 0 THEN s[i + 1]
                    ELSE s[i + 1] + ((s[i + 2] - s[i + 1]) * r) \div 4]

\* Q1, Q3, IQR, lower_bound and upper_bound of one column
bounds(cells) ==
    LET Q1 == quantile(cells, 1)
        Q3 == quantile(cells, 3)
    IN  IF isnull(Q1) THEN [Q1 |-> NaN, Q3 |-> NaN, lower_bound |-> NaN, upper_bound |-> NaN]
        ELSE LET IQR == Q3.v - Q1.v
             IN  [Q1 |-> Q1, Q3 |-> Q3,
                  lower_bound |-> [k |-> "num", v |-> Q1.v - (3 * IQR) \div 2],
                  upper_bound |-> [k |-> "num", v |-> Q3.v + (3 * IQR) \div 2]]

\* a plausible slip: >= and <= in place of > and <
is_outlier_inclusive(c, lower_bound, upper_bound) ==
    /\ ~isnull(c) /\ ~isnull(lower_bound)
    /\ (c.v <= lower_bound.v \/ c.v >= upper_bound.v)

\* (df[column] < lower_bound) | (df[column] > upper_bound), false on a NaN
is_outlier(c, lower_bound, upper_bound) ==
    /\ ~isnull(c) /\ ~isnull(lower_bound)
    /\ (c.v < lower_bound.v \/ c.v > upper_bound.v)

\* a plausible slip: only the upper bound is applied
clip_upper_only(c, lower_bound, upper_bound) ==
    IF isnull(c) \/ isnull(lower_bound) THEN c
    ELSE IF c.v > upper_bound.v THEN upper_bound
    ELSE c

\* Series.clip(lower=lower_bound, upper=upper_bound) on one cell; a NaN cell
\* stays NaN and a NaN bound bounds nothing
clip(c, lower_bound, upper_bound) ==
    IF isnull(c) \/ isnull(lower_bound) THEN c
    ELSE IF c.v < lower_bound.v THEN lower_bound
    ELSE IF c.v > upper_bound.v THEN upper_bound
    ELSE c

\* outliers: the rows counted before the column is capped
count_outliers(cells) ==
    LET b == bounds(cells)
    IN  Cardinality({i \in 1..Len(cells) :
                        is_outlier(cells[i], b.lower_bound, b.upper_bound)})

\* a plausible slip: the rows outside the bounds are dropped, from every column
drop_outliers(t) ==
    LET keep == {i \in 1..len(t) :
                    \A j \in select_dtypes(t, numeric_dtypes) :
                        LET b == bounds(t[j].cells)
                        IN  ~is_outlier(t[j].cells[i], b.lower_bound, b.upper_bound)}
        idx  == SelectSeq([i \in 1..len(t) |-> i], LAMBDA i : i \in keep)
    IN  [j \in 1..Len(t) |->
            [t[j] EXCEPT !.cells = [h \in 1..Len(idx) |-> t[j].cells[idx[h]]]]]

\* the table after the loop: every numeric column capped at its own bounds
cap_columns(t) ==
    [j \in 1..Len(t) |->
        IF t[j].dtype \in numeric_dtypes
        THEN LET b == bounds(t[j].cells)
             IN  [t[j] EXCEPT !.dtype = "float64",
                              !.cells = [i \in 1..Len(t[j].cells) |->
                                  clip(t[j].cells[i], b.lower_bound, b.upper_bound)]]
        ELSE t[j]]

\* the returned pair (df, outliers_removed)
remove_outliers(t) ==
    LET counted == {j \in select_dtypes(t, numeric_dtypes) : count_outliers(t[j].cells) > 0}
    IN  [df |-> cap_columns(t),
         outliers_removed |->
            [n \in {t[j].name : j \in counted} |->
                count_outliers((CHOOSE c \in Range(t) : c.name = n).cells)]]

(***************************************************************************)
(* Step 5: validate_cleaning                                               *)
(***************************************************************************)
\* len(df) / original_shape[0] raises ZeroDivisionError on 0 original rows
validate_raises(shape0) == shape0[1] = 0

\* (1 - len(df)/original_shape[0]) * 100, as the fraction num / den whose
\* float64 value is 0.0 exactly when num = 0
data_loss_percentage(t, shape0) ==
    [num |-> (shape0[1] - len(t)) * 100, den |-> shape0[1]]

validation_results(t, shape0) ==
    [rows_remaining           |-> len(t),
     missing_values_remaining |-> isnull_sum_sum(t),
     duplicates_remaining     |-> duplicated_sum(t),
     data_loss_percentage     |-> data_loss_percentage(t, shape0)]

\* a plausible slip: a fresh report holding the validation block alone
validate_cleaning_fresh(t, shape0, report) ==
    "validation" :> validation_results(t, shape0)

\* cleaning_report['validation'] = validation_results; return cleaning_report
validate_cleaning(t, shape0, report) ==
    [key \in DOMAIN report \cup {"validation"} |->
        IF key = "validation" THEN validation_results(t, shape0) ELSE report[key]]

(***************************************************************************)
(* The tables a caller may pass.                                           *)
(***************************************************************************)
TextCells ==
    {Str(<<"$", "1", ",", "2", "0", "0">>), Str(<<"$", "3", "5", "0">>),
     Str(<<"$", "4", "0">>), Str(<<"a", "b", "c">>),
     Str(<<"2", "0", "2", "1", "-", "0", "1", "-", "0", "5">>), NaN}

NumCells == {Num(1), Num(2), Num(3), Num(4), Num(100), NaN}

CategoryCells == {Str(<<"a", "b", "c">>), Str(<<"$", "4", "0">>), NaN}

ImputeNumCells == {Num(10), Num(20), Num(30), NaN}

DateCells == {Date(2021, 1, 5), NaN}

TextColumn(name, cells) == [name |-> name, dtype |-> "object", cells |-> cells]

NumColumn(name, cells) == [name |-> name, dtype |-> numeric_dtype(cells), cells |-> cells]

DateColumn(name, cells) == [name |-> name, dtype |-> "datetime64", cells |-> cells]

Cells(S, rows) == [1..rows -> S]

\* tables as a loader hands them over: text and numeric columns
Tables ==
    UNION {{<<TextColumn("price", c)>> : c \in Cells(TextCells, r)}
           \cup {<<NumColumn("price", c)>> : c \in Cells(NumCells, r)} :
           r \in 0..MaxRows}
    \cup
    {<<NumColumn("price", c)>> :
        c \in UNION {Cells(NumCells \ {NaN}, r) : r \in 0..MaxNumRows}}
    \cup
    UNION {{<<p, TextColumn("category", c)>> :
                p \in {TextColumn("price", x) : x \in Cells(TextCells, r)}
                      \cup {NumColumn("price", x) : x \in Cells(NumCells, r)},
                c \in Cells(CategoryCells, r)} : r \in 0..MaxPairRows}

\* tables as handle_missing_values may meet them: numeric, text and temporal
ImputerTables ==
    UNION {{<<NumColumn("price", c)>> : c \in Cells(ImputeNumCells, r)}
           \cup {<<TextColumn("category", c)>> : c \in Cells(CategoryCells, r)}
           \cup {<<DateColumn("date", c)>> : c \in Cells(DateCells, r)} :
           r \in 0..MaxImputeRows}
    \cup
    UNION {{<<NumColumn("price", c), TextColumn("category", d)>> :
                c \in Cells(ImputeNumCells, r), d \in Cells(CategoryCells, r)} :
           r \in 0..MaxPairRows}

(***************************************************************************)
(* automated_cleaning_pipeline.  pc names the statement to run next; input *)
(* is the table as the caller passed it and before the table as the stage  *)
(* that ran last found it (both only observe the run).                     *)
(***************************************************************************)
\* d[key] = value on a dict
setitem(d, key, value) ==
    [x \in DOMAIN d \cup {key} |-> IF x = key THEN value ELSE d[x]]

Init ==
    /\ df \in Tables
    /\ pc = "call"
    /\ original_shape = <<>>
    /\ cleaning_report = <<>>
    /\ error = "none"
    /\ input = df
    /\ before = df

\* original_shape = df.shape; cleaning_report = {}
Begin ==
    /\ pc = "call"
    /\ original_shape' = shape(df)
    /\ cleaning_report' = <<>>
    /\ pc' = "check_data_quality"
    /\ UNCHANGED <<df, error, input, before>>

\* cleaning_report['initial_quality'] = check_data_quality(df)
CheckQuality ==
    /\ pc = "check_data_quality"
    /\ cleaning_report' = setitem(cleaning_report, "initial_quality", check_data_quality(df))
    /\ before' = df
    /\ pc' = "standardize_datatypes"
    /\ UNCHANGED <<df, original_shape, error, input>>

\* df = standardize_datatypes(df)
Standardize ==
    /\ pc = "standardize_datatypes"
    /\ df' = standardize_datatypes(df)
    /\ before' = df
    /\ pc' = "handle_missing_values"
    /\ UNCHANGED <<original_shape, cleaning_report, error, input>>

\* df = handle_missing_values(df)
HandleMissing ==
    /\ pc = "handle_missing_values"
    /\ LET r == handle_missing_values(df)
       IN  /\ df' = r.df
           /\ error' = r.error
           /\ pc' = IF r.error = "none" THEN "remove_outliers" ELSE "raised"
    /\ before' = df
    /\ UNCHANGED <<original_shape, cleaning_report, input>>

\* df, outliers = remove_outliers(df); cleaning_report['outliers_removed'] = outliers
RemoveOutliers ==
    /\ pc = "remove_outliers"
    /\ LET r == remove_outliers(df)
       IN  /\ df' = r.df
           /\ cleaning_report' = setitem(cleaning_report, "outliers_removed", r.outliers_removed)
    /\ before' = df
    /\ pc' = "validate_cleaning"
    /\ UNCHANGED <<original_shape, error, input>>

\* cleaning_report = validate_cleaning(df, original_shape, cleaning_report)
Validate ==
    /\ pc = "validate_cleaning"
    /\ IF validate_raises(original_shape)
       THEN /\ error' = "ZeroDivisionError"
            /\ pc' = "raised"
            /\ UNCHANGED cleaning_report
       ELSE /\ cleaning_report' = validate_cleaning(df, original_shape, cleaning_report)
            /\ pc' = "return"
            /\ UNCHANGED error
    /\ before' = df
    /\ UNCHANGED <<df, original_shape, input>>

Next ==
    \/ Begin
    \/ CheckQuality
    \/ Standardize
    \/ HandleMissing
    \/ RemoveOutliers
    \/ Validate

Spec == Init /\ [][Next]_vars

(***************************************************************************)
(* handle_missing_values called twice in succession on one table.          *)
(***************************************************************************)
InitImputer ==
    /\ df \in ImputerTables
    /\ pc = "impute_first"
    /\ original_shape = shape(df)
    /\ cleaning_report = <<>>
    /\ error = "none"
    /\ input = df
    /\ before = df

ImputeFirst ==
    /\ pc = "impute_first"
    /\ LET r == handle_missing_values(df)
       IN  /\ df' = r.df
           /\ error' = r.error
           /\ pc' = IF r.error = "none" THEN "impute_second" ELSE "raised"
    /\ before' = df
    /\ UNCHANGED <<original_shape, cleaning_report, input>>

ImputeSecond ==
    /\ pc = "impute_second"
    /\ LET r == handle_missing_values(df)
       IN  /\ df' = r.df
           /\ error' = r.error
           /\ pc' = IF r.error = "none" THEN "imputed_twice" ELSE "raised"
    /\ before' = df
    /\ UNCHANGED <<original_shape, cleaning_report, input>>

NextImputer == ImputeFirst \/ ImputeSecond

SpecImputer == InitImputer /\ [][NextImputer]_vars

(***************************************************************************)
(* What the properties below speak of.                                     *)
(***************************************************************************)
\* handle_missing_values has returned in this run of the pipeline
ImputerReturned ==
    \/ pc \in {"remove_outliers", "validate_cleaning", "return"}
    \/ (pc = "raised" /\ error = "ZeroDivisionError")

\* validate_cleaning has been called in this run of the pipeline
ValidatorCalled ==
    \/ pc = "return"
    \/ (pc = "raised" /\ error = "ZeroDivisionError")

HasPresent(col) == \E i \in 1..Len(col.cells) : ~isnull(col.cells[i])

HasMissing(col) == \E i \in 1..Len(col.cells) : isnull(col.cells[i])

\* zero rows, or a column whose cells are all missing
Degenerate(t) == len(t) = 0 \/ \E j \in 1..Len(t) : ~HasPresent(t[j])

ColumnNames(t) == [j \in 1..Len(t) |-> t[j].name]

\* the k-th smallest present number of a column, found by counting
KthSmallest(cells, k) ==
    LET p == Present(cells)
    IN  CHOOSE x \in {p[i].v : i \in 1..Len(p)} :
            /\ Cardinality({i \in 1..Len(p) : p[i].v < x}) < k
            /\ k <= Cardinality({i \in 1..Len(p) : p[i].v <= x})

\* twice the median of the present numbers
TwiceMedian(cells) ==
    LET n == Len(Present(cells))
    IN  KthSmallest(cells, (n + 1) \div 2) + KthSmallest(cells, n \div 2 + 1)

\* four times the quantile at quarters / 4, by linear interpolation between
\* the two order statistics around position (n - 1) * quarters / 4
FourQuantile(cells, quarters) ==
    LET n   == Len(Present(cells))
        pos == (n - 1) * quarters
        lo  == KthSmallest(cells, pos \div 4 + 1)
        hi  == IF pos % 4 = 0 THEN lo ELSE KthSmallest(cells, pos \div 4 + 2)
    IN  4 * lo + (hi - lo) * (pos % 4)

\* eight times lower_bound = Q1 - 1.5 * (Q3 - Q1) and upper_bound = Q3 + 1.5 * (Q3 - Q1)
EightLower(cells) == 2 * FourQuantile(cells, 1) - 3 * (FourQuantile(cells, 3) - FourQuantile(cells, 1))

EightUpper(cells) == 2 * FourQuantile(cells, 3) + 3 * (FourQuantile(cells, 3) - FourQuantile(cells, 1))

IsNumeric(col) == col.dtype \in {"int64", "float64"}

S1200 == <<"$", "1", ",", "2", "0", "0">>

S350 == <<"$", "3", "5", "0">>

S40 == <<"$", "4", "0">>

Sabc == <<"a", "b", "c">>

(***************************************************************************)
(* C1.  For every input table, zero rows included, the                     *)
(* data_loss_percentage that validate_cleaning computes in the pipeline is *)
(* exactly 0: once validate_cleaning has been called the report holds a    *)
(* validation block whose data_loss_percentage is 0.                       *)
(***************************************************************************)
C1_DataLossIsZero ==
    ValidatorCalled =>
        /\ "validation" \in DOMAIN cleaning_report
        /\ cleaning_report["validation"].data_loss_percentage.num = 0

(***************************************************************************)
(* C2.  In every state of a run of the pipeline the table has the rows and *)
(* the column names of the input table, every column holding one cell per  *)
(* row: no stage drops or adds a row or a column.                          *)
(***************************************************************************)
C2_ShapePreserved ==
    /\ ColumnNames(df) = ColumnNames(input)
    /\ \A j \in 1..Len(df) : Len(df[j].cells) = len(input)
    /\ pc # "call" => original_shape = shape(df)

\* a run that returned with its rows intact after the capper rewrote cells
C2_Witness ==
    /\ pc = "return"
    /\ "price" \in DOMAIN cleaning_report["outliers_removed"]
    /\ df # input
    /\ len(df) = len(input) /\ len(df) > 0
    /\ cleaning_report["validation"].rows_remaining = original_shape[1]

(***************************************************************************)
(* C3.  Once handle_missing_values has returned, and in every later state, *)
(* no cell is missing in a column that had a present cell, whatever type   *)
(* the normalizer gave the column; so missing_values_remaining is 0 when    *)
(* every column had a present cell.                                        *)
(***************************************************************************)
C3_NoMissingAfterImputer ==
    /\ ImputerReturned =>
          \A j \in 1..Len(df) : HasPresent(input[j]) => ~HasMissing(df[j])
    /\ (pc = "return" /\ \A j \in 1..Len(input) : HasPresent(input[j])) =>
          cleaning_report["validation"].missing_values_remaining = 0

(***************************************************************************)
(* C4.  The stages run strictly in the order auditor, normalizer, imputer, *)
(* capper, validator; the report starts empty and only grows: each stage   *)
(* adds its own key, a key once written keeps its value, and the returned  *)
(* report holds exactly initial_quality, outliers_removed and validation,  *)
(* initial_quality being the audit of the table as the caller passed it.   *)
(***************************************************************************)
C4_Step ==
    /\ <<pc, pc'>> \in
          {<<"call", "check_data_quality">>,
           <<"check_data_quality", "standardize_datatypes">>,
           <<"standardize_datatypes", "handle_missing_values">>,
           <<"handle_missing_values", "remove_outliers">>,
           <<"remove_outliers", "validate_cleaning">>,
           <<"validate_cleaning", "return">>,
           <<"handle_missing_values", "raised">>,
           <<"validate_cleaning", "raised">>}
    /\ pc' = "check_data_quality" => DOMAIN cleaning_report' = {}
    /\ \A key \in DOMAIN cleaning_report :
          key \in DOMAIN cleaning_report' /\ cleaning_report'[key] = cleaning_report[key]
    /\ DOMAIN cleaning_report' \ DOMAIN cleaning_report =
          IF pc = "check_data_quality" THEN {"initial_quality"}
          ELSE IF pc = "remove_outliers" THEN {"outliers_removed"}
          ELSE IF pc = "validate_cleaning" /\ pc' = "return" THEN {"validation"}
          ELSE {}
    /\ pc' = "return" =>
          /\ DOMAIN cleaning_report' = {"initial_quality", "outliers_removed", "validation"}
          /\ cleaning_report'["initial_quality"].missing_values
                = [n \in columns(input) |->
                      Cardinality({i \in 1..len(input) : \E j \in 1..Len(input) :
                          input[j].name = n /\ isnull(input[j].cells[i])})]
          /\ cleaning_report'["initial_quality"].total_rows = len(input)
          /\ cleaning_report'["initial_quality"] = check_data_quality(input)

C4_OrderedGrowingReport == [][C4_Step]_vars

\* a returned report whose initial_quality no longer describes the table
C4_Witness ==
    /\ pc = "return"
    /\ DOMAIN cleaning_report = {"initial_quality", "outliers_removed", "validation"}
    /\ cleaning_report["initial_quality"] = check_data_quality(input)
    /\ cleaning_report["initial_quality"].missing_values # isnull_sum(df)
    /\ df # input

(***************************************************************************)
(* C5.  On a degenerate input (zero rows, or a column whose cells are all  *)
(* missing) the pipeline does not raise.                                   *)
(***************************************************************************)
C5_DegenerateDoesNotRaise == Degenerate(input) => (pc # "raised" /\ error = "none")

(***************************************************************************)
(* C6.  After remove_outliers, every cell of every numeric column lies in  *)
(* [lower_bound, upper_bound], the bounds Q1 - 1.5 * IQR and               *)
(* Q3 + 1.5 * IQR of the column as the capper found it; a cell that was    *)
(* inside the bounds keeps its value, and a column with Q1 = Q3 ends with  *)
(* every cell equal to Q1.                                                 *)
(***************************************************************************)
C6_CappedWithinBounds ==
    pc = "validate_cleaning" =>
        \A j \in 1..Len(before) : IsNumeric(before[j]) =>
            LET old == before[j].cells
                new == df[j].cells
                lo8 == EightLower(old)
                hi8 == EightUpper(old)
            IN  /\ Len(new) = Len(old)
                /\ \A i \in 1..Len(new) :
                      /\ new[i].k = "num"
                      /\ lo8 <= 8 * new[i].v /\ 8 * new[i].v <= hi8
                      /\ (lo8 <= 8 * old[i].v /\ 8 * old[i].v <= hi8) => new[i] = old[i]
                      /\ FourQuantile(old, 1) = FourQuantile(old, 3) =>
                            4 * new[i].v = FourQuantile(old, 1)
                      /\ 8 * old[i].v < lo8 => 8 * new[i].v = lo8
                      /\ 8 * old[i].v > hi8 => 8 * new[i].v = hi8

\* a column without variance between its quartiles, capped to the one value
C6_Witness ==
    /\ pc = "validate_cleaning"
    /\ IsNumeric(before[1])
    /\ Len(before[1].cells) >= 4
    /\ FourQuantile(before[1].cells, 1) = FourQuantile(before[1].cells, 3)
    /\ \E i \in 1..Len(df[1].cells) :
          before[1].cells[i].v * 4 < FourQuantile(before[1].cells, 1)
    /\ \E i \in 1..Len(df[1].cells) :
          before[1].cells[i].v * 4 > FourQuantile(before[1].cells, 1)
    /\ \A i \in 1..Len(df[1].cells) : 4 * df[1].cells[i].v = FourQuantile(before[1].cells, 1)

(***************************************************************************)
(* C7.  handle_missing_values run twice in succession is idempotent: on a  *)
(* table whose columns each hold a present cell, neither run raises and    *)
(* the second leaves every cell of the first run's table as it is.         *)
(***************************************************************************)
C7_ImputerIdempotent ==
    (\A j \in 1..Len(input) : HasPresent(input[j])) =>
        /\ pc # "raised"
        /\ pc = "imputed_twice" => df = before

\* a second run over a table in which the first run filled two cells
C7_Witness ==
    /\ pc = "imputed_twice"
    /\ \A j \in 1..Len(input) : HasPresent(input[j])
    /\ \E j \in 1..Len(input) :
          Cardinality({i \in 1..Len(input[j].cells) : isnull(input[j].cells[i])}) >= 2
    /\ before # input
    /\ df = before

(***************************************************************************)
(* C8.  standardize_datatypes is all-or-nothing per text column: temporal  *)
(* if every present cell parses as a date; otherwise numeric if every      *)
(* present cell, stripped of '$' and ',', parses as a number               *)
(* (["$1,200", "$350", "$40"] becomes [1200, 350, 40]); otherwise, as for  *)
(* ["$1,200", "abc", "$40"], the column stays exactly as it was.  A column *)
(* that is not text is not changed and no failure reaches the caller.      *)
(***************************************************************************)
C8_AllOrNothing ==
    pc = "handle_missing_values" =>
        /\ error = "none"
        /\ Len(df) = Len(before)
        /\ \A j \in 1..Len(before) :
              LET old == before[j].cells
                  new == df[j].cells
                  P   == {i \in 1..Len(old) : ~isnull(old[i])}
                  bare(i) == str_replace(str_replace(old[i].v, "$"), ",")
              IN  IF before[j].dtype # "object" THEN df[j] = before[j]
                  ELSE IF \A i \in P : IsDateString(old[i].v)
                  THEN /\ df[j].dtype = "datetime64" /\ df[j].name = before[j].name
                       /\ Len(new) = Len(old)
                       /\ \A i \in 1..Len(old) : new[i].k = IF i \in P THEN "date" ELSE "nan"
                  ELSE IF \A i \in P : IsNumberString(bare(i))
                  THEN /\ IsNumeric(df[j]) /\ df[j].name = before[j].name
                       /\ Len(new) = Len(old)
                       /\ \A i \in 1..Len(old) : new[i].k = IF i \in P THEN "num" ELSE "nan"
                       /\ old = <<Str(S1200), Str(S350), Str(S40)>> =>
                             new = <<Num(1200), Num(350), Num(40)>>
                  ELSE /\ df[j] = before[j]
                       /\ old = <<Str(S1200), Str(Sabc), Str(S40)>> =>
                             new = <<Str(S1200), Str(Sabc), Str(S40)>>

\* the column ["$1,200", "$350", "$40"] turned into the numbers 1200, 350, 40
C8_Witness ==
    /\ pc = "handle_missing_values"
    /\ before[1].dtype = "object"
    /\ before[1].cells = <<Str(S1200), Str(S350), Str(S40)>>
    /\ df[1].dtype = "int64"
    /\ df[1].cells = <<Num(1200), Num(350), Num(40)>>

(***************************************************************************)
(* C9.  The outliers map of remove_outliers has a key for a numeric column *)
(* exactly when a cell of the column was strictly outside                  *)
(* [lower_bound, upper_bound] before clipping; the value recorded is the   *)
(* number of such cells, which is the number of cells the clipping         *)
(* changed.  The column [1, 2, 3, 4, 100] has the bounds [-1, 7], becomes  *)
(* [1, 2, 3, 4, 7] and records 1.                                          *)
(***************************************************************************)
C9_OutliersMap ==
    pc = "validate_cleaning" =>
        LET map == cleaning_report["outliers_removed"]
        IN  /\ DOMAIN map \subseteq {before[j].name : j \in {h \in 1..Len(before) : IsNumeric(before[h])}}
            /\ \A j \in 1..Len(before) : IsNumeric(before[j]) =>
                  LET old     == before[j].cells
                      new     == df[j].cells
                      outside == {i \in 1..Len(old) :
                                     \/ 8 * old[i].v < EightLower(old)
                                     \/ 8 * old[i].v > EightUpper(old)}
                      changed == {i \in 1..Len(old) : new[i] # old[i]}
                  IN  /\ before[j].name \in DOMAIN map <=> outside # {}
                      /\ outside # {} => map[before[j].name] = Cardinality(outside)
                      /\ Cardinality(changed) = Cardinality(outside)
                      /\ old = <<Num(1), Num(2), Num(3), Num(4), Num(100)>> =>
                            /\ EightLower(old) = 8 * Num(0 - 1).v /\ EightUpper(old) = 8 * Num(7).v
                            /\ new = <<Num(1), Num(2), Num(3), Num(4), Num(7)>>
                            /\ map = ("price" :> 1)

\* the column [1, 2, 3, 4, 100] capped to [1, 2, 3, 4, 7], one outlier recorded
C9_Witness ==
    /\ pc = "validate_cleaning"
    /\ before[1].cells = <<Num(1), Num(2), Num(3), Num(4), Num(100)>>
    /\ df[1].cells = <<Num(1), Num(2), Num(3), Num(4), Num(7)>>
    /\ cleaning_report["outliers_removed"] = ("price" :> 1)

(***************************************************************************)
(* C10.  When handle_missing_values returns, every missing cell of a       *)
(* numeric column holds the median of the column's present values          *)
(* ([10, missing, 20, 30] gets 20) and every missing cell of a text column *)
(* the column's most frequent present value; every cell that was present   *)
(* keeps its value and a temporal column is left as it was.  Of several    *)
(* most frequent values, tieByFirst says whether the one met first in      *)
(* column order is taken, or the smallest.                                 *)
(***************************************************************************)
FirstIndex(cells, x) == CHOOSE i \in 1..Len(cells) : cells[i] = x /\ \A h \in 1..(i - 1) : cells[h] # x

\* x is taken before y: met first in column order, or the smaller string
TakenBefore(cells, x, y, tieByFirst) ==
    IF tieByFirst THEN FirstIndex(cells, x) < FirstIndex(cells, y)
    ELSE StrLess(x.v, y.v)

ImputedAsClaimed(tieByFirst) ==
    pc = "impute_second" =>
        /\ Len(df) = Len(before)
        /\ \A j \in 1..Len(before) :
              LET old == before[j].cells
                  new == df[j].cells
              IN  /\ Len(new) = Len(old)
                  /\ IsNumeric(before[j]) =>
                        /\ \A i \in 1..Len(old) :
                              IF isnull(old[i])
                              THEN new[i].k = "num" /\ 2 * new[i].v = TwiceMedian(old)
                              ELSE new[i] = old[i]
                        /\ old = <<Num(10), NaN, Num(20), Num(30)>> =>
                              new = <<Num(10), Num(20), Num(20), Num(30)>>
                  /\ before[j].dtype = "object" =>
                        \A i \in 1..Len(old) :
                            IF isnull(old[i])
                            THEN /\ new[i] \in Range(Present(old))
                                 /\ \A y \in Range(Present(old)) :
                                       /\ CountIn(old, y) <= CountIn(old, new[i])
                                       /\ (CountIn(old, y) = CountIn(old, new[i]) /\ y # new[i])
                                             => TakenBefore(old, new[i], y, tieByFirst)
                            ELSE new[i] = old[i]
                  /\ before[j].dtype = "datetime64" => df[j] = before[j]

\* C10 as stated: ties broken by the first-encountered value in column order
C10_FirstEncounteredTie == ImputedAsClaimed(TRUE)

\* C10 as amended: ties broken by the smallest value
C10_SmallestTie == ImputedAsClaimed(FALSE)

\* ["abc", "$40", missing]: both values occur once, the smaller "$40" is taken
C10_Witness ==
    /\ pc = "impute_second"
    /\ before[1].dtype = "object"
    /\ before[1].cells = <<Str(Sabc), Str(S40), NaN>>
    /\ df[1].cells = <<Str(Sabc), Str(S40), Str(S40)>>

====
